---- MODULE Spec2Model ----
(***************************************************************************)
(* A model of the go-odoo-connector package: the configuration loader      *)
(* (LoadConfig, NewConnectorFromConfig), the Connector constructor         *)
(* (NewConnector) and the Connector's record operations                    *)
(* (SearchReadRecords, CreateRecord, UpdateRecord, DeleteRecord,           *)
(* ExecuteMethod).                                                         *)
(*                                                                         *)
(* Spec     : one caller using the package sequentially; every action is   *)
(*            one whole function call, the server's answer being an input. *)
(* SpecConc : several goroutines sharing one constructed Connector; a      *)
(*            method is split at its blocking remote call.                 *)
(*                                                                         *)
(* Every record is written with its fields in one order throughout, the    *)
(* order in which the field names first occur in the module.               *)
(***************************************************************************)
EXTENDS Integers, Sequences, FiniteSets, TLC

VARIABLES
    conn,       \* the caller's *Connector: <<>> (nil) or <<c>>
    ctor,       \* the arguments and the authenticate reply conn was constructed from
    uidWrites,  \* number of assignments made to the UID field of that Connector
    inp,        \* the arguments of the last call of the sequential caller
    env,        \* what the environment answered during that call
    sent,       \* the remote calls that call issued, in order
    ret,        \* what that call returned: [val, err]
    pc,         \* per goroutine: "idle", "called", "replied", "done"
    ginp,       \* per goroutine: the arguments of its current method call
    gsent,      \* per goroutine: the remote calls its current method call issued
    greply,     \* per goroutine: the reply the server gave to its remote call
    resultVar,  \* the result variables the replies are decoded into
    gret        \* per goroutine: what its method call returned

vars == <<conn, ctor, uidWrites, inp, env, sent, ret, pc, ginp, gsent, greply, resultVar, gret>>
seqVars == <<inp, env, sent, ret>>
concVars == <<pc, ginp, gsent, greply, resultVar, gret>>

----------------------------------------------------------------------------
(* Bounds of the model *)

MaxUID == 1
MaxId == 2
MaxOffset == 1
NumGoroutines == 2

----------------------------------------------------------------------------
(* Go values: interface{} arguments of a remote call, nil pointers, errors *)

\* a nil slice, a nil map or a nil interface value
NilV == [t |-> "nil", s |-> "", n |-> 0, xs |-> <<>>]
StrV(s) == [t |-> "string", s |-> s, n |-> 0, xs |-> <<>>]
IntV(n) == [t |-> "int", s |-> "", n |-> n, xs |-> <<>>]
\* a non-nil slice of values
Arr(xs) == [t |-> "slice", s |-> "", n |-> 0, xs |-> xs]
\* a non-nil map; xs lists its entries, each Arr(<<StrV(key), value>>)
Map(xs) == [t |-> "map", s |-> "", n |-> 0, xs |-> xs]
Entry(key, value) == Arr(<<StrV(key), value>>)

\* a nil pointer, and a nil error
Nil == <<>>
NoErr == <<>>

\* fmt.Errorf without %w: an error with the given text and nothing wrapped
Errorf(parts) == <<[msg |-> parts, cause |-> NoErr]>>
\* fmt.Errorf("...: %w", e): the text ends with e's text, and e is wrapped
ErrorfW(parts, e) == <<[msg |-> parts \o e[1].msg, cause |-> e]>>

\* one JSON member of the config file: absent, null, a string or a number
JAbsent == [kind |-> "absent", text |-> ""]
JNull == [kind |-> "null", text |-> ""]
JNum == [kind |-> "number", text |-> ""]
JStr(text) == [kind |-> "string", text |-> text]

----------------------------------------------------------------------------
(* The arguments of the calls and the answers of the environment *)

Urls == {"http://x"}
Usernames == {"u"}
APIKeys == {"k"}
DBs == {"d"}
\* the integers an authenticate reply can decode to
UIDs == (0 - MaxUID)..MaxUID
Models == {"crm.lead", "res.partner"}
Methods == {"name_get", "search_count"}
Ids == 1..MaxId

\* errors of the transport or of the server (faults); two of them carry the text of
\* the "no effect" errors of UpdateRecord and DeleteRecord
Causes == {Errorf(<<"connection refused">>), Errorf(<<"no record updated">>),
           Errorf(<<"no record deleted">>)}
OptErrs == {NoErr} \cup Causes

\* the config file at the path given: unreadable, not JSON, or a JSON object
Files ==
    {[readErr |-> Errorf(<<"no such file or directory">>), syntaxOK |-> TRUE,
      url |-> JAbsent, username |-> JAbsent, api_key |-> JAbsent, db |-> JAbsent],
     [readErr |-> NoErr, syntaxOK |-> FALSE,
      url |-> JAbsent, username |-> JAbsent, api_key |-> JAbsent, db |-> JAbsent]}
    \cup [readErr : {NoErr}, syntaxOK : {TRUE},
          url : {JAbsent, JNum, JStr("")} \cup {JStr(u) : u \in Urls},
          username : {JNull, JStr("")} \cup {JStr(u) : u \in Usernames},
          api_key : {JNum, JStr("")} \cup {JStr(k) : k \in APIKeys},
          db : {JAbsent, JStr("")} \cup {JStr(d) : d \in DBs}]

LoadConfigArgs == [op : {"LoadConfig"}, file : Files]
NewConnectorFromConfigArgs == [op : {"NewConnectorFromConfig"}, file : Files]

\* NewConnector(url, username, apiKey, db), the arguments named as the Connector
\* fields they are stored in
NewConnectorArgs ==
    [op : {"NewConnector"}, URL : Urls, Username : Usernames, APIKey : APIKeys, DB : DBs]

\* the answers of the environment to NewConnector: dialCommon and dialModels (nil
\* or the error of xmlrpc.NewClient), auth (the uid decoded from the authenticate
\* reply and the authenticate call's error)
DialEnvs ==
    {e \in [dialCommon : OptErrs, dialModels : OptErrs, auth : [val : UIDs, err : OptErrs]] :
        /\ e.dialCommon # NoErr => (e.dialModels = NoErr /\ e.auth = [val |-> 0, err |-> NoErr])
        /\ e.dialModels # NoErr => e.auth = [val |-> 0, err |-> NoErr]
        /\ e.auth.err # NoErr => e.auth.val = 0}

\* domain terms and domains (nil, empty, one term, prefix OR of two terms)
Term(f, o, v) == Arr(<<StrV(f), StrV(o), v>>)
Domains == {NilV, Arr(<<>>), Arr(<<Term("type", "=", StrV("lead"))>>),
            Arr(<<StrV("|"), Term("type", "=", StrV("lead")), Term("priority", ">", IntV(MaxId))>>)}
SearchReadOptions ==
    [Fields : {NilV}, Domain : Domains, Offset : {0}, Limit : {0}, Order : {""}]
    \cup [Fields : {Arr(<<StrV("name"), StrV("email_from")>>)}, Domain : Domains,
          Offset : 0..MaxOffset, Limit : {10}, Order : {"create_date desc"}]

ValueMaps == {NilV, Map(<<>>), Map(<<Entry("name", StrV("n"))>>)}
ArgLists == {NilV, Arr(<<Arr(<<IntV(1)>>)>>)}
KwArgs == {NilV, Map(<<>>), Map(<<Entry("context", Map(<<>>))>>)}

SearchReadRecordsArgs == [op : {"SearchReadRecords"}, model : Models, opts : SearchReadOptions]
UpdateRecordArgs == [op : {"UpdateRecord"}, model : Models, id : Ids, values : ValueMaps]
DeleteRecordArgs == [op : {"DeleteRecord"}, model : Models, id : Ids]
CreateRecordArgs == [op : {"CreateRecord"}, model : Models, values : ValueMaps]
ExecuteMethodArgs ==
    [op : {"ExecuteMethod"}, model : Models, method : Methods, args : ArgLists, kwargs : KwArgs]

\* the replies of a remote call: the value decoded into the result variable (its
\* zero value when the call fails) and the call's error
Failures(zero) == {[val |-> zero, err |-> e] : e \in Causes}
RecordReplies == Failures(NilV) \cup {[val |-> v, err |-> NoErr] :
                    v \in {Arr(<<>>), Arr(<<Map(<<Entry("id", IntV(1))>>)>>)}}
IdReplies == Failures(0) \cup {[val |-> v, err |-> NoErr] : v \in 0..MaxId}
BoolReplies == Failures(FALSE) \cup {[val |-> v, err |-> NoErr] : v \in BOOLEAN}
AnyReplies == Failures(NilV) \cup {[val |-> v, err |-> NoErr] :
                    v \in {NilV, Arr(<<StrV("x")>>)}}

----------------------------------------------------------------------------
(* config: LoadConfig *)

\* os.ReadFile: the file's content, or an error
ReadFile(file) == [val |-> file, err |-> file.readErr]

\* json.Unmarshal of one member into a string field holding ""
DecodeField(j) == IF j.kind = "string" THEN j.text ELSE ""

\* json.Unmarshal(data, &config): a syntax error leaves config untouched; a member
\* of the wrong type is skipped and reported once the other members are decoded
Unmarshal(data) ==
    IF ~data.syntaxOK
    THEN [val |-> [URL |-> "", Username |-> "", APIKey |-> "", DB |-> ""],
          err |-> Errorf(<<"invalid character">>)]
    ELSE [val |-> [URL |-> DecodeField(data.url), Username |-> DecodeField(data.username),
                   APIKey |-> DecodeField(data.api_key), DB |-> DecodeField(data.db)],
          err |-> IF \E j \in {data.url, data.username, data.api_key, data.db} :
                        j.kind = "number"
                  THEN Errorf(<<"json: cannot unmarshal number into Go struct field of type string">>)
                  ELSE NoErr]

\* LoadConfig checking the API key before the username
LoadConfigResult_reordered(file) ==
    LET rd == ReadFile(file)
        um == Unmarshal(rd.val)
        config == um.val
    IN  IF rd.err # NoErr
        THEN [val |-> Nil, err |-> ErrorfW(<<"failed to read config file: ">>, rd.err)]
        ELSE IF um.err # NoErr
        THEN [val |-> Nil, err |-> ErrorfW(<<"failed to parse config file: ">>, um.err)]
        ELSE IF config.URL = ""
        THEN [val |-> Nil, err |-> Errorf(<<"URL is required in config">>)]
        ELSE IF config.APIKey = ""
        THEN [val |-> Nil, err |-> Errorf(<<"API key is required in config">>)]
        ELSE IF config.Username = ""
        THEN [val |-> Nil, err |-> Errorf(<<"username is required in config">>)]
        ELSE IF config.DB = ""
        THEN [val |-> Nil, err |-> Errorf(<<"database name is required in config">>)]
        ELSE [val |-> <<config>>, err |-> NoErr]

LoadConfigResult(file) ==
    LET rd == ReadFile(file)
        um == Unmarshal(rd.val)
        config == um.val
    IN  IF rd.err # NoErr
        THEN [val |-> Nil, err |-> ErrorfW(<<"failed to read config file: ">>, rd.err)]
        ELSE IF um.err # NoErr
        THEN [val |-> Nil, err |-> ErrorfW(<<"failed to parse config file: ">>, um.err)]
        ELSE IF config.URL = ""
        THEN [val |-> Nil, err |-> Errorf(<<"URL is required in config">>)]
        ELSE IF config.Username = ""
        THEN [val |-> Nil, err |-> Errorf(<<"username is required in config">>)]
        ELSE IF config.APIKey = ""
        THEN [val |-> Nil, err |-> Errorf(<<"API key is required in config">>)]
        ELSE IF config.DB = ""
        THEN [val |-> Nil, err |-> Errorf(<<"database name is required in config">>)]
        ELSE [val |-> <<config>>, err |-> NoErr]

----------------------------------------------------------------------------
(* connector: NewConnector *)

\* fmt.Sprintf("%s/xmlrpc/2/common", url) and fmt.Sprintf("%s/xmlrpc/2/object", url)
CommonEndpoint(url) == <<url, "/xmlrpc/2/common">>
ObjectEndpoint(url) == <<url, "/xmlrpc/2/object">>

\* the Connector built before the clients are created
NewStruct(url, username, apiKey, db) ==
    [URL |-> url, Username |-> username, APIKey |-> apiKey, DB |-> db, UID |-> 0,
     common |-> CommonEndpoint(url), models |-> ObjectEndpoint(url)]

\* c.common.Call("authenticate", []interface{}{db, username, apiKey, map[string]string{}}, &uid)
\* a remote call is the endpoint of the client, the method name and the parameters
AuthenticateCall(url, username, apiKey, db) ==
    [endpoint |-> CommonEndpoint(url), methodName |-> "authenticate",
     params |-> <<StrV(db), StrV(username), StrV(apiKey), Map(<<>>)>>]

\* NewConnector without the uid == 0 test
NewConnectorResult_noZeroCheck(url, username, apiKey, db, e) ==
    LET c == NewStruct(url, username, apiKey, db)
        call == AuthenticateCall(url, username, apiKey, db)
    IN  IF e.dialCommon # NoErr
        THEN [val |-> Nil,
              err |-> ErrorfW(<<"failed to connect to common endpoint: ">>, e.dialCommon),
              calls |-> <<>>, writes |-> 0]
        ELSE IF e.dialModels # NoErr
        THEN [val |-> Nil,
              err |-> ErrorfW(<<"failed to connect to models endpoint: ">>, e.dialModels),
              calls |-> <<>>, writes |-> 0]
        ELSE IF e.auth.err # NoErr
        THEN [val |-> Nil, err |-> ErrorfW(<<"authentication failed: ">>, e.auth.err),
              calls |-> <<call>>, writes |-> 0]
        ELSE [val |-> <<[c EXCEPT !.UID = e.auth.val]>>, err |-> NoErr,
              calls |-> <<call>>, writes |-> 1]

\* NewConnector returning the Connector without storing the uid in it
NewConnectorResult_uidNotStored(url, username, apiKey, db, e) ==
    LET c == NewStruct(url, username, apiKey, db)
        call == AuthenticateCall(url, username, apiKey, db)
    IN  IF e.dialCommon # NoErr
        THEN [val |-> Nil,
              err |-> ErrorfW(<<"failed to connect to common endpoint: ">>, e.dialCommon),
              calls |-> <<>>, writes |-> 0]
        ELSE IF e.dialModels # NoErr
        THEN [val |-> Nil,
              err |-> ErrorfW(<<"failed to connect to models endpoint: ">>, e.dialModels),
              calls |-> <<>>, writes |-> 0]
        ELSE IF e.auth.err # NoErr
        THEN [val |-> Nil, err |-> ErrorfW(<<"authentication failed: ">>, e.auth.err),
              calls |-> <<call>>, writes |-> 0]
        ELSE IF e.auth.val = 0
        THEN [val |-> Nil, err |-> Errorf(<<"authentication failed: invalid credentials">>),
              calls |-> <<call>>, writes |-> 0]
        ELSE [val |-> <<c>>, err |-> NoErr, calls |-> <<call>>, writes |-> 0]

\* e: the answers of the environment.  The result lists, besides the values
\* returned, the remote calls issued and the number of assignments made to the
\* UID field of the returned Connector.
NewConnectorResult(url, username, apiKey, db, e) ==
    LET c == NewStruct(url, username, apiKey, db)
        call == AuthenticateCall(url, username, apiKey, db)
    IN  IF e.dialCommon # NoErr
        THEN [val |-> Nil,
              err |-> ErrorfW(<<"failed to connect to common endpoint: ">>, e.dialCommon),
              calls |-> <<>>, writes |-> 0]
        ELSE IF e.dialModels # NoErr
        THEN [val |-> Nil,
              err |-> ErrorfW(<<"failed to connect to models endpoint: ">>, e.dialModels),
              calls |-> <<>>, writes |-> 0]
        ELSE IF e.auth.err # NoErr
        THEN [val |-> Nil, err |-> ErrorfW(<<"authentication failed: ">>, e.auth.err),
              calls |-> <<call>>, writes |-> 0]
        ELSE IF e.auth.val = 0
        THEN [val |-> Nil, err |-> Errorf(<<"authentication failed: invalid credentials">>),
              calls |-> <<call>>, writes |-> 0]
        ELSE [val |-> <<[c EXCEPT !.UID = e.auth.val]>>, err |-> NoErr,
              calls |-> <<call>>, writes |-> 1]

----------------------------------------------------------------------------
(* connector: the record operations.  For each method, XCall is the remote    *)
(* call it issues on c.models and XReturn is what it returns given the reply  *)
(* of that call.                                                              *)

\* SearchReadRecords without the default for a nil Domain
SearchReadRecordsCall_nilDomain(c, model, opts) ==
    LET params == Map(<<Entry("fields", opts.Fields), Entry("offset", IntV(opts.Offset)),
                        Entry("limit", IntV(opts.Limit)), Entry("order", StrV(opts.Order))>>)
    IN  [endpoint |-> c.models, methodName |-> "execute_kw",
         params |-> <<StrV(c.DB), IntV(c.UID), StrV(c.APIKey),
                      StrV(model), StrV("search_read"),
                      Arr(<<opts.Domain>>),
                      params>>]

SearchReadRecordsCall(c, model, opts) ==
    LET domain == IF opts.Domain = NilV THEN Arr(<<>>) ELSE opts.Domain
        params == Map(<<Entry("fields", opts.Fields), Entry("offset", IntV(opts.Offset)),
                        Entry("limit", IntV(opts.Limit)), Entry("order", StrV(opts.Order))>>)
    IN  [endpoint |-> c.models, methodName |-> "execute_kw",
         params |-> <<StrV(c.DB), IntV(c.UID), StrV(c.APIKey),
                      StrV(model), StrV("search_read"),
                      Arr(<<domain>>),
                      params>>]

SearchReadRecordsReturn(model, reply) ==
    IF reply.err # NoErr
    THEN [val |-> NilV, err |-> ErrorfW(<<"search_read failed for model ", model, ": ">>, reply.err)]
    ELSE [val |-> reply.val, err |-> NoErr]

CreateRecordCall(c, model, values) ==
    [endpoint |-> c.models, methodName |-> "execute_kw",
     params |-> <<StrV(c.DB), IntV(c.UID), StrV(c.APIKey),
                  StrV(model), StrV("create"),
                  Arr(<<values>>)>>]

CreateRecordReturn(model, reply) ==
    IF reply.err # NoErr
    THEN [val |-> 0, err |-> ErrorfW(<<"create failed for model ", model, ": ">>, reply.err)]
    ELSE [val |-> reply.val, err |-> NoErr]

\* UpdateRecord sending the user name in place of the API key
UpdateRecordCall_sendsUsername(c, model, id, values) ==
    [endpoint |-> c.models, methodName |-> "execute_kw",
     params |-> <<StrV(c.DB), IntV(c.UID), StrV(c.Username),
                  StrV(model), StrV("write"),
                  Arr(<<Arr(<<IntV(id)>>), values>>)>>]

UpdateRecordCall(c, model, id, values) ==
    [endpoint |-> c.models, methodName |-> "execute_kw",
     params |-> <<StrV(c.DB), IntV(c.UID), StrV(c.APIKey),
                  StrV(model), StrV("write"),
                  Arr(<<Arr(<<IntV(id)>>), values>>)>>]

\* UpdateRecord not testing the boolean result
UpdateRecordReturn_ignoresResult(model, id, reply) ==
    IF reply.err # NoErr
    THEN [val |-> NilV,
          err |-> ErrorfW(<<"update failed for model ", model, " with id ", id, ": ">>, reply.err)]
    ELSE [val |-> NilV, err |-> NoErr]

\* UpdateRecord and DeleteRecord return an error only: val is not used
UpdateRecordReturn(model, id, reply) ==
    IF reply.err # NoErr
    THEN [val |-> NilV,
          err |-> ErrorfW(<<"update failed for model ", model, " with id ", id, ": ">>, reply.err)]
    ELSE IF ~reply.val
    THEN [val |-> NilV,
          err |-> Errorf(<<"update failed for model ", model, " with id ", id, ": ",
                           "no record updated">>)]
    ELSE [val |-> NilV, err |-> NoErr]

DeleteRecordCall(c, model, id) ==
    [endpoint |-> c.models, methodName |-> "execute_kw",
     params |-> <<StrV(c.DB), IntV(c.UID), StrV(c.APIKey),
                  StrV(model), StrV("unlink"),
                  Arr(<<Arr(<<IntV(id)>>)>>)>>]

DeleteRecordReturn(model, id, reply) ==
    IF reply.err # NoErr
    THEN [val |-> NilV,
          err |-> ErrorfW(<<"delete failed for model ", model, " with id ", id, ": ">>, reply.err)]
    ELSE IF ~reply.val
    THEN [val |-> NilV,
          err |-> Errorf(<<"delete failed for model ", model, " with id ", id, ": ",
                           "no record deleted">>)]
    ELSE [val |-> NilV, err |-> NoErr]

\* ExecuteMethod appending kwargs only when it has entries (len(kwargs) > 0)
ExecuteMethodCall_skipsEmptyKwargs(c, model, method, args, kwargs) ==
    LET callArgs == <<StrV(c.DB), IntV(c.UID), StrV(c.APIKey),
                      StrV(model), StrV(method),
                      args>>
    IN  [endpoint |-> c.models, methodName |-> "execute_kw",
         params |-> IF kwargs # NilV /\ kwargs.xs # <<>> THEN Append(callArgs, kwargs)
                    ELSE callArgs]

ExecuteMethodCall(c, model, method, args, kwargs) ==
    LET callArgs == <<StrV(c.DB), IntV(c.UID), StrV(c.APIKey),
                      StrV(model), StrV(method),
                      args>>
    IN  [endpoint |-> c.models, methodName |-> "execute_kw",
         params |-> IF kwargs # NilV THEN Append(callArgs, kwargs) ELSE callArgs]

ExecuteMethodReturn(model, method, reply) ==
    IF reply.err # NoErr
    THEN [val |-> NilV,
          err |-> ErrorfW(<<"method execution failed for ", model, ".", method, ": ">>, reply.err)]
    ELSE [val |-> reply.val, err |-> NoErr]

----------------------------------------------------------------------------
(* Spec: one caller, every function call one step *)

NoInput == [op |-> "none"]
NoEnv == [val |-> NilV, err |-> NoErr]
NoRet == [val |-> NilV, err |-> NoErr]
NoCtor == [URL |-> "", Username |-> "", APIKey |-> "", DB |-> "", UID |-> 0]

G == 1..NumGoroutines

Init ==
    /\ conn = Nil
    /\ ctor = NoCtor
    /\ uidWrites = 0
    /\ inp = NoInput
    /\ env = NoEnv
    /\ sent = <<>>
    /\ ret = NoRet
    /\ pc = [g \in G |-> "idle"]
    /\ ginp = [g \in G |-> NoInput]
    /\ gsent = [g \in G |-> <<>>]
    /\ greply = [g \in G |-> NoEnv]
    /\ resultVar = [g \in G |-> NoEnv]
    /\ gret = [g \in G |-> NoRet]

LoadConfig ==
    \E i \in LoadConfigArgs :
        /\ inp' = i
        /\ env' = NoEnv
        /\ sent' = <<>>
        /\ ret' = LoadConfigResult(i.file)
        /\ UNCHANGED <<conn, ctor, uidWrites, concVars>>

\* the constructor's effect on the caller's state, a being the arguments
\* NewConnector is called with; the caller keeps the first Connector it obtains
Construct(i, a, e, r) ==
    /\ conn = Nil
    /\ inp' = i
    /\ env' = e
    /\ sent' = r.calls
    /\ ret' = [val |-> r.val, err |-> r.err]
    /\ conn' = r.val
    /\ ctor' = IF r.val = Nil THEN NoCtor
               ELSE [URL |-> a.URL, Username |-> a.Username, APIKey |-> a.APIKey,
                     DB |-> a.DB, UID |-> e.auth.val]
    /\ uidWrites' = r.writes
    /\ UNCHANGED concVars

NewConnector ==
    \E i \in NewConnectorArgs, e \in DialEnvs :
        Construct(i, i, e, NewConnectorResult(i.URL, i.Username, i.APIKey, i.DB, e))

NewConnectorFromConfig ==
    \E i \in NewConnectorFromConfigArgs :
        LET loaded == LoadConfigResult(i.file)
            config == loaded.val[1]
        IN  IF loaded.err # NoErr
            THEN Construct(i, NoCtor, NoEnv,
                           [val |-> Nil, err |-> loaded.err, calls |-> <<>>, writes |-> 0])
            ELSE \E e \in DialEnvs :
                    Construct(i, config, e,
                              NewConnectorResult(config.URL, config.Username, config.APIKey,
                                                 config.DB, e))

\* a record operation that clears the session identifier when its remote call fails
DataOp_clearsUID(i, reply, call, r) ==
    /\ conn # Nil
    /\ inp' = i
    /\ env' = reply
    /\ sent' = <<call>>
    /\ ret' = r
    /\ IF reply.err # NoErr /\ uidWrites < 2
       THEN conn' = <<[conn[1] EXCEPT !.UID = 0]>> /\ uidWrites' = uidWrites + 1
       ELSE UNCHANGED <<conn, uidWrites>>
    /\ UNCHANGED <<ctor, concVars>>

\* a record operation that issues its remote call a second time when it fails
DataOp_retries(i, reply, call, r) ==
    /\ conn # Nil
    /\ inp' = i
    /\ env' = reply
    /\ sent' = IF reply.err # NoErr THEN <<call, call>> ELSE <<call>>
    /\ ret' = r
    /\ UNCHANGED <<conn, ctor, uidWrites, concVars>>

\* a record operation's effect on the caller's state: the one remote call it
\* issues and what it returns; the receiver is only read
DataOp(i, reply, call, r) ==
    /\ conn # Nil
    /\ inp' = i
    /\ env' = reply
    /\ sent' = <<call>>
    /\ ret' = r
    /\ UNCHANGED <<conn, ctor, uidWrites, concVars>>

SearchReadRecords ==
    \E i \in SearchReadRecordsArgs, reply \in RecordReplies :
        DataOp(i, reply, SearchReadRecordsCall(conn[1], i.model, i.opts),
               SearchReadRecordsReturn(i.model, reply))

CreateRecord ==
    \E i \in CreateRecordArgs, reply \in IdReplies :
        DataOp(i, reply, CreateRecordCall(conn[1], i.model, i.values),
               CreateRecordReturn(i.model, reply))

UpdateRecord ==
    \E i \in UpdateRecordArgs, reply \in BoolReplies :
        DataOp(i, reply, UpdateRecordCall(conn[1], i.model, i.id, i.values),
               UpdateRecordReturn(i.model, i.id, reply))

DeleteRecord ==
    \E i \in DeleteRecordArgs, reply \in BoolReplies :
        DataOp(i, reply, DeleteRecordCall(conn[1], i.model, i.id),
               DeleteRecordReturn(i.model, i.id, reply))

ExecuteMethod ==
    \E i \in ExecuteMethodArgs, reply \in AnyReplies :
        DataOp(i, reply, ExecuteMethodCall(conn[1], i.model, i.method, i.args, i.kwargs),
               ExecuteMethodReturn(i.model, i.method, reply))

Next ==
    \/ LoadConfig
    \/ NewConnector
    \/ NewConnectorFromConfig
    \/ SearchReadRecords
    \/ CreateRecord
    \/ UpdateRecord
    \/ DeleteRecord
    \/ ExecuteMethod

Spec == Init /\ [][Next]_vars

----------------------------------------------------------------------------
(* SpecConc: goroutines sharing one constructed Connector.  A method call is  *)
(* three steps: Invoke (the arguments are built from the receiver's fields    *)
(* and the remote call is issued), ServerReply (the blocking Call returns,    *)
(* the reply decoded into the method's result variables) and Return.          *)

\* the remote call of a method call with arguments i
CallOf(c, i) ==
    CASE i.op = "SearchReadRecords" -> SearchReadRecordsCall(c, i.model, i.opts)
      [] i.op = "CreateRecord" -> CreateRecordCall(c, i.model, i.values)
      [] i.op = "UpdateRecord" -> UpdateRecordCall(c, i.model, i.id, i.values)
      [] i.op = "DeleteRecord" -> DeleteRecordCall(c, i.model, i.id)
      [] i.op = "ExecuteMethod" -> ExecuteMethodCall(c, i.model, i.method, i.args, i.kwargs)

\* what a method call with arguments i returns on the given reply
ReturnOf(i, reply) ==
    CASE i.op = "SearchReadRecords" -> SearchReadRecordsReturn(i.model, reply)
      [] i.op = "CreateRecord" -> CreateRecordReturn(i.model, reply)
      [] i.op = "UpdateRecord" -> UpdateRecordReturn(i.model, i.id, reply)
      [] i.op = "DeleteRecord" -> DeleteRecordReturn(i.model, i.id, reply)
      [] i.op = "ExecuteMethod" -> ExecuteMethodReturn(i.model, i.method, reply)

\* the result variables declared at package level: one for all goroutines
ResultVar_shared(g) == 1

\* the variables a reply is decoded into (var result, err) are locals of the method
\* call: each goroutine's call has its own
ResultVar(g) == g

ConcInputs ==
    {[op |-> "SearchReadRecords", model |-> "crm.lead",
      opts |-> [Fields |-> NilV, Domain |-> NilV, Offset |-> 0, Limit |-> 0, Order |-> ""]],
     [op |-> "CreateRecord", model |-> "crm.lead", values |-> Map(<<>>)],
     [op |-> "DeleteRecord", model |-> "crm.lead", id |-> 1],
     [op |-> "ExecuteMethod", model |-> "crm.lead", method |-> "name_get",
      args |-> NilV, kwargs |-> NilV]}
    \cup {[op |-> "UpdateRecord", model |-> "crm.lead", id |-> id, values |-> Map(<<>>)] :
            id \in Ids}

ConcReplies(op) ==
    CASE op = "SearchReadRecords" ->
            {[val |-> NilV, err |-> Errorf(<<"connection refused">>)],
             [val |-> Arr(<<>>), err |-> NoErr]}
      [] op = "CreateRecord" ->
            {[val |-> 0, err |-> Errorf(<<"connection refused">>)], [val |-> 1, err |-> NoErr]}
      [] op \in {"UpdateRecord", "DeleteRecord"} ->
            {[val |-> FALSE, err |-> Errorf(<<"connection refused">>)],
             [val |-> FALSE, err |-> NoErr], [val |-> TRUE, err |-> NoErr]}
      [] op = "ExecuteMethod" ->
            {[val |-> NilV, err |-> Errorf(<<"connection refused">>)],
             [val |-> IntV(1), err |-> NoErr]}

\* a Connector as NewConnector returns it
ConcArgs == [URL |-> "http://x", Username |-> "u", APIKey |-> "k", DB |-> "d", UID |-> MaxUID]
ConcInit ==
    /\ conn = NewConnectorResult(ConcArgs.URL, ConcArgs.Username, ConcArgs.APIKey, ConcArgs.DB,
                [dialCommon |-> NoErr, dialModels |-> NoErr,
                 auth |-> [val |-> ConcArgs.UID, err |-> NoErr]]).val
    /\ ctor = ConcArgs
    /\ uidWrites = 1
    /\ inp = NoInput
    /\ env = NoEnv
    /\ sent = <<>>
    /\ ret = NoRet
    /\ pc = [g \in G |-> "idle"]
    /\ ginp = [g \in G |-> NoInput]
    /\ gsent = [g \in G |-> <<>>]
    /\ greply = [g \in G |-> NoEnv]
    /\ resultVar = [g \in G |-> NoEnv]
    /\ gret = [g \in G |-> NoRet]

Invoke(g) ==
    /\ pc[g] \in {"idle", "done"}
    /\ \E i \in ConcInputs :
        /\ ginp' = [ginp EXCEPT ![g] = i]
        /\ gsent' = [gsent EXCEPT ![g] = <<CallOf(conn[1], i)>>]
    /\ resultVar' = [resultVar EXCEPT ![ResultVar(g)] = NoEnv]
    /\ greply' = [greply EXCEPT ![g] = NoEnv]
    /\ gret' = [gret EXCEPT ![g] = NoRet]
    /\ pc' = [pc EXCEPT ![g] = "called"]
    /\ UNCHANGED <<conn, ctor, uidWrites, seqVars>>

ServerReply(g) ==
    /\ pc[g] = "called"
    /\ \E reply \in ConcReplies(ginp[g].op) :
        /\ greply' = [greply EXCEPT ![g] = reply]
        /\ resultVar' = [resultVar EXCEPT ![ResultVar(g)] = reply]
    /\ pc' = [pc EXCEPT ![g] = "replied"]
    /\ UNCHANGED <<conn, ctor, uidWrites, seqVars, ginp, gsent, gret>>

Return(g) ==
    /\ pc[g] = "replied"
    /\ gret' = [gret EXCEPT ![g] = ReturnOf(ginp[g], resultVar[ResultVar(g)])]
    /\ pc' = [pc EXCEPT ![g] = "done"]
    /\ UNCHANGED <<conn, ctor, uidWrites, seqVars, ginp, gsent, greply, resultVar>>

ConcNext == \E g \in G : Invoke(g) \/ ServerReply(g) \/ Return(g)

SpecConc == ConcInit /\ [][ConcNext]_vars

----------------------------------------------------------------------------
(* The claims *)

ConstructOps == {"NewConnector", "NewConnectorFromConfig"}
DataOps == {"SearchReadRecords", "CreateRecord", "UpdateRecord", "DeleteRecord",
            "ExecuteMethod"}

\* the last call was a constructor call whose authenticate call returned without error
AuthenticateAnswered ==
    /\ inp.op \in ConstructOps
    /\ Len(sent) = 1
    /\ sent[1].methodName = "authenticate"
    /\ env.auth.err = NoErr

\* C1: when the authenticate call returns without error and yields session
\* identifier 0, NewConnector returns the "invalid credentials" authentication
\* error and a nil Connector.
C1_ZeroSessionFails ==
    (AuthenticateAnswered /\ env.auth.val = 0) =>
        /\ ret.val = Nil
        /\ conn = Nil
        /\ ret.err = Errorf(<<"authentication failed: invalid credentials">>)

C1_Witness ==
    /\ inp.op = "NewConnector"
    /\ AuthenticateAnswered
    /\ env.auth.val = 0
    /\ ret.err # NoErr

\* C2 as stated: every Connector a successful NewConnector returns has a positive
\* session identifier, whatever integer authenticate returned.
C2_PositiveSession ==
    conn # Nil => conn[1].UID > 0

\* C2, amended: every Connector a successful NewConnector returns has a nonzero
\* session identifier, equal to the integer authenticate returned (which may be
\* negative).
C2_NonzeroSession ==
    /\ conn # Nil => (conn[1].UID # 0 /\ conn[1].UID = ctor.UID)
    /\ (inp.op \in ConstructOps /\ ret.err = NoErr) =>
            (ret.val # Nil /\ ret.val[1].UID # 0 /\ ret.val[1].UID = env.auth.val)

C2_Witness ==
    /\ inp.op = "NewConnector"
    /\ ret.err = NoErr
    /\ conn # Nil
    /\ conn[1].UID < 0

\* the error UpdateRecord and DeleteRecord return when the server's result is false
NoEffectError(i) ==
    IF i.op = "UpdateRecord"
    THEN Errorf(<<"update failed for model ", i.model, " with id ", i.id, ": ",
                  "no record updated">>)
    ELSE Errorf(<<"delete failed for model ", i.model, " with id ", i.id, ": ",
                  "no record deleted">>)

\* C3: UpdateRecord and DeleteRecord return nil exactly when the remote call
\* succeeds with result true; a failed remote call returns an error wrapping
\* the cause, a false result returns the "no record updated/deleted" error
\* wrapping nothing, and the two errors differ.
C3_BooleanResultErrors ==
    inp.op \in {"UpdateRecord", "DeleteRecord"} =>
        /\ (ret.err = NoErr) <=> (env.err = NoErr /\ env.val)
        /\ env.err # NoErr =>
                /\ ret.err # NoErr
                /\ ret.err[1].cause = env.err
                /\ ret.err # NoEffectError(inp)
        /\ (env.err = NoErr /\ ~env.val) =>
                /\ ret.err = NoEffectError(inp)
                /\ ret.err[1].cause = NoErr

\* a remote failure whose text is the text of the "no effect" error
C3_Witness ==
    /\ inp.op = "UpdateRecord"
    /\ env.err = Errorf(<<"no record updated">>)
    /\ ret.err # NoErr
    /\ ret.err[1].msg = NoEffectError(inp)[1].msg

\* a config file member that leaves its field empty
EmptyField(j) == j.kind # "string" \/ j.text = ""

FirstEmptyField(f) ==
    IF EmptyField(f.url) THEN "URL is required in config"
    ELSE IF EmptyField(f.username) THEN "username is required in config"
    ELSE IF EmptyField(f.api_key) THEN "API key is required in config"
    ELSE "database name is required in config"

ReadableParseable(f) ==
    /\ f.readErr = NoErr
    /\ f.syntaxOK
    /\ \A j \in {f.url, f.username, f.api_key, f.db} : j.kind # "number"

\* C4: for a readable, parseable file LoadConfig returns the file's four fields
\* exactly when all four are non-empty, and otherwise no config and the
\* validation error of the first empty field in the order url, username,
\* api_key, db.
C4_LoadConfigValidation ==
    (inp.op = "LoadConfig" /\ ReadableParseable(inp.file)) =>
        LET f == inp.file
        IN  IF \E j \in {f.url, f.username, f.api_key, f.db} : EmptyField(j)
            THEN ret.val = Nil /\ ret.err = Errorf(<<FirstEmptyField(f)>>)
            ELSE /\ ret.err = NoErr
                 /\ ret.val = <<[URL |-> f.url.text, Username |-> f.username.text,
                                APIKey |-> f.api_key.text, DB |-> f.db.text]>>

\* several empty fields: the earliest one is reported
C4_Witness ==
    /\ inp.op = "LoadConfig"
    /\ ReadableParseable(inp.file)
    /\ ~EmptyField(inp.file.url)
    /\ EmptyField(inp.file.username)
    /\ EmptyField(inp.file.api_key)
    /\ ret.err = Errorf(<<"username is required in config">>)

\* C5: SearchReadRecords with a nil Domain sends the remote call it sends with
\* an explicit empty Domain, the sixth argument being a one-element sequence
\* holding an empty filter.
C5_NilDomainAsEmpty ==
    (inp.op = "SearchReadRecords" /\ inp.opts.Domain \in {NilV, Arr(<<>>)}) =>
        /\ sent = <<SearchReadRecordsCall(conn[1], inp.model,
                                          [inp.opts EXCEPT !.Domain = Arr(<<>>)])>>
        /\ sent[1].methodName = "execute_kw"
        /\ Len(sent[1].params) = 7
        /\ sent[1].params[6] = Arr(<<Arr(<<>>)>>)

C5_Witness ==
    /\ inp.op = "SearchReadRecords"
    /\ inp.opts.Domain = NilV
    /\ Len(sent) = 1
    /\ sent[1].params[6].xs[1] = Arr(<<>>)

\* C6: ExecuteMethod sends the six arguments (db, sessionID, apiKey, model,
\* method, args) when kwargs is nil, and those six followed by kwargs when
\* kwargs is a non-nil map, empty or not.
C6_KwargsAppended ==
    inp.op = "ExecuteMethod" =>
        LET c == conn[1]
            six == <<StrV(c.DB), IntV(c.UID), StrV(c.APIKey), StrV(inp.model),
                     StrV(inp.method), inp.args>>
        IN  /\ Len(sent) = 1
            /\ IF inp.kwargs = NilV
               THEN Len(sent[1].params) = 6 /\ sent[1].params = six
               ELSE /\ Len(sent[1].params) = 7
                    /\ SubSeq(sent[1].params, 1, 6) = six
                    /\ sent[1].params[7] = inp.kwargs

C6_Witness ==
    /\ inp.op = "ExecuteMethod"
    /\ inp.kwargs = Map(<<>>)
    /\ Len(sent[1].params) = 7

\* the remote method name of a record operation
OpMethod(i) ==
    CASE i.op = "SearchReadRecords" -> "search_read"
      [] i.op = "CreateRecord" -> "create"
      [] i.op = "UpdateRecord" -> "write"
      [] i.op = "DeleteRecord" -> "unlink"
      [] i.op = "ExecuteMethod" -> i.method

\* C7: once NewConnector has succeeded for (url, username, apiKey, db) with
\* authenticate returning u, every record operation issues execute_kw on the
\* object endpoint of url with first arguments db, u, apiKey, the model name and
\* the operation's method name.
C7_CallsCarrySession ==
    inp.op \in DataOps =>
        /\ Len(sent) >= 1
        /\ \A k \in 1..Len(sent) :
            /\ sent[k].endpoint = <<ctor.URL, "/xmlrpc/2/object">>
            /\ sent[k].methodName = "execute_kw"
            /\ Len(sent[k].params) >= 5
            /\ SubSeq(sent[k].params, 1, 5) =
                    <<StrV(ctor.DB), IntV(ctor.UID), StrV(ctor.APIKey),
                      StrV(inp.model), StrV(OpMethod(inp))>>

C7_Witness ==
    /\ inp.op = "UpdateRecord"
    /\ ctor.UID = MaxUID
    /\ sent[1].params[2] = IntV(MaxUID)
    /\ sent[1].params[5] = StrV("write")

\* C8: the session identifier is assigned once, by the constructor, and no
\* later step changes a field of the Connector or assigns the session
\* identifier again.
C8_ConnectorFrozen ==
    [][/\ (conn = Nil /\ conn' # Nil) => (uidWrites = 0 /\ uidWrites' = 1)
       /\ conn # Nil => (conn' = conn /\ uidWrites' = uidWrites)]_vars

\* a record operation has failed on a constructed Connector
C8_Witness ==
    /\ inp.op \in DataOps
    /\ ret.err # NoErr
    /\ conn # Nil
    /\ uidWrites = 1
    /\ conn[1].UID = ctor.UID

\* C9: a record operation issues exactly one remote call, and when that call
\* fails it returns an error wrapping the failure without a further call; a
\* constructor issues at most one call, an authenticate call.
C9_OneCallNoRetry ==
    /\ inp.op \in DataOps =>
        /\ Len(sent) = 1
        /\ env.err # NoErr => (ret.err # NoErr /\ ret.err[1].cause = env.err)
    /\ inp.op \in ConstructOps =>
        /\ Len(sent) <= 1
        /\ \A k \in 1..Len(sent) : sent[k].methodName = "authenticate"

C9_Witness ==
    /\ inp.op = "CreateRecord"
    /\ env.err # NoErr
    /\ ret.err # NoErr
    /\ Len(sent) = 1

====
